---- MODULE Spec2Model ----
(***************************************************************************)
(* Model of tools/remove_commented_lines.py: the per-line comment-stripping *)
(* engine remove_full_line_comments, and the driver process_file / main.    *)
(*                                                                          *)
(* A line is a sequence of one-character strings, so that lstrip, strip,    *)
(* startswith, endswith, substring tests and the regular expressions of the *)
(* source are computed on characters, as the source computes them.          *)
(***************************************************************************)
EXTENDS Naturals, Sequences, FiniteSets

VARIABLES
    ext,        \* remove_full_line_comments: parameter ext
    lines,      \* remove_full_line_comments: parameter lines
    i,          \* number of lines the for loop has consumed
    in_block,   \* the block-comment flag of the C-like and XML-like loops
    result,     \* the list of retained lines
    removed,    \* the count of removed lines
    pc,         \* position: "call", "loop", "done"
    ret,        \* the returned pair (retained lines, removed count)
    pass,       \* 1: first run on the input, 2: re-run on the first run's output
    first,      \* the pair returned by the first run
    fs,         \* the tree: file path -> the content of the file, in lines
    stack,      \* os.walk: directories still to be yielded, next first
    names,      \* main: files of the yielded directory not yet looked at
    path,       \* process_file: parameter path
    files_changed,  \* main: counter
    lines_removed,  \* main: counter
    printed,    \* the two numbers main prints
    log,        \* one record per call of process_file, in call order
    runs,       \* the log and the printed numbers of each earlier run of main
    changed_count,  \* remove_comments.main: counter
    file_count      \* remove_comments.main: counter

engineVars == <<ext, lines, i, in_block, result, removed, pc, ret, pass, first>>

mainVars == <<fs, stack, names, path, files_changed, lines_removed, printed, log>>

rcVars == <<changed_count, file_count>>

vars == <<engineVars, mainVars, runs, rcVars>>

-----------------------------------------------------------------------------
(* Bounds *)

MaxLines == 3

MaxFiles == 3

-----------------------------------------------------------------------------
(* Extension tables *)

INCLUDED_EXTENSIONS ==
    {".dart", ".kt", ".kts", ".java", ".swift", ".m", ".mm", ".js", ".ts",
     ".tsx", ".jsx", ".gradle", ".xml", ".plist", ".sh", ".yaml", ".yml"}

CLIKE_EXTS ==
    {".dart", ".kt", ".kts", ".java", ".swift", ".m", ".mm", ".js", ".ts",
     ".tsx", ".jsx", ".gradle"}

XML_EXTS == {".xml", ".plist"}

HASH_EXTS == {".sh", ".yaml", ".yml"}

-----------------------------------------------------------------------------
(* Characters and Python's string primitives *)

\* str.lstrip(), str.strip() and the regex class \s agree on what is
\* whitespace; a space and the line terminator stand for the class.
Whitespace == {" ", "\n"}

IsSpace(c) == c \in Whitespace

AllSpace(s, lo, hi) == \A k \in lo..hi : IsSpace(s[k])

\* s[lo..hi] as Python slices it (empty when hi < lo)
Slice(s, lo, hi) == IF hi < lo THEN <<>> ELSE SubSeq(s, lo, hi)

\* str.lstrip(): drop the longest all-whitespace prefix
lstrip(s) ==
    LET n == Len(s)
        k == IF AllSpace(s, 1, n) THEN n + 1
             ELSE CHOOSE j \in 1..n : ~IsSpace(s[j]) /\ AllSpace(s, 1, j - 1)
    IN  Slice(s, k, n)

\* str.rstrip(): drop the longest all-whitespace suffix
rstrip(s) ==
    LET n == Len(s)
        k == IF AllSpace(s, 1, n) THEN 0
             ELSE CHOOSE j \in 1..n : ~IsSpace(s[j]) /\ AllSpace(s, j + 1, n)
    IN  Slice(s, 1, k)

\* str.strip()
strip(s) == rstrip(lstrip(s))

\* str.startswith(p)
startswith(s, p) == Len(s) >= Len(p) /\ Slice(s, 1, Len(p)) = p

\* str.endswith(p)
endswith(s, p) == Len(s) >= Len(p) /\ Slice(s, Len(s) - Len(p) + 1, Len(s)) = p

\* p occurs in s at position k
OccursAt(s, p, k) ==
    /\ k >= 1
    /\ k + Len(p) - 1 <= Len(s)
    /\ Slice(s, k, k + Len(p) - 1) = p

\* the substring test `p in s`
Contains(s, p) == \E k \in 1..Len(s) : OccursAt(s, p, k)

SLASHES == <<"/", "/">>
BLOCK_OPEN == <<"/", "*">>
BLOCK_CLOSE == <<"*", "/">>
XML_OPEN == <<"<", "!", "-", "-">>
XML_CLOSE == <<"-", "-", ">">>
HASH == <<"#">>
SHEBANG == <<"#", "!">>

\* re.match(r"^\s*" + p, line): whitespace, then the literal p
MatchAfterSpace(line, p) ==
    \E k \in 1..(Len(line) + 1) : AllSpace(line, 1, k - 1) /\ OccursAt(line, p, k)

\* re.search(r"\*/\s*$", s): a closer followed by whitespace only
SearchCloserAtEnd(s) ==
    \E k \in 1..Len(s) : OccursAt(s, BLOCK_CLOSE, k) /\ AllSpace(s, k + 2, Len(s))

\* re.match(r"^\s*/\*.*?\*/\s*$", line): whitespace, the opener, any
\* characters but a newline, a closer, then whitespace only
MatchBlockOnOneLine(line) ==
    \E k \in 1..(Len(line) + 1) :
        /\ AllSpace(line, 1, k - 1)
        /\ OccursAt(line, BLOCK_OPEN, k)
        /\ \E j \in (k + 2)..Len(line) :
              /\ OccursAt(line, BLOCK_CLOSE, j)
              /\ \A m \in (k + 2)..(j - 1) : line[m] # "\n"
              /\ AllSpace(line, j + 2, Len(line))

-----------------------------------------------------------------------------
(* remove_full_line_comments: the loop bodies.  The loop state st is the    *)
(* record [in_block, result, removed] of the function's locals.             *)

\* `removed += 1; continue` without the increment
Drop_uncounted(st) == st

\* `removed += 1; continue`: the line is not appended
Drop(st) == [st EXCEPT !.removed = @ + 1]

\* `result.append(stripped)` in place of the line itself
Keep_stripped(st, line) == [st EXCEPT !.result = Append(@, lstrip(line))]

\* `result.append(line)`
Keep(st, line) == [st EXCEPT !.result = Append(@, line)]

\* the in_block branch with the closing line kept
CLikeInBlock_keepCloser(stripped, st) ==
    IF SearchCloserAtEnd(stripped) \/ Contains(stripped, BLOCK_CLOSE)
    THEN Keep([st EXCEPT !.in_block = FALSE], stripped)
    ELSE Drop(st)

\* the in_block branch with the closer looked for at the end of the line only
CLikeInBlock_endOnly(stripped, st) ==
    Drop([st EXCEPT !.in_block =
             IF SearchCloserAtEnd(stripped) THEN FALSE ELSE @])

\* C-like, in_block true: the line is dropped; a closer anywhere ends the block
CLikeInBlock(stripped, st) ==
    Drop([st EXCEPT !.in_block =
             IF SearchCloserAtEnd(stripped) \/ Contains(stripped, BLOCK_CLOSE)
             THEN FALSE ELSE @])

\* the C-like loop body with an opener line that does not set in_block
CLikeLine_noBlock(line, st) ==
    LET stripped == lstrip(line) IN
    IF st.in_block THEN CLikeInBlock(stripped, st)
    ELSE IF MatchAfterSpace(line, SLASHES) THEN Drop(st)
    ELSE IF MatchAfterSpace(line, BLOCK_OPEN) THEN Drop(st)
    ELSE Keep(st, line)

\* C-like: one iteration of the for loop
CLikeLine(line, st) ==
    LET stripped == lstrip(line) IN
    IF st.in_block THEN CLikeInBlock(stripped, st)
    ELSE IF MatchAfterSpace(line, SLASHES) THEN Drop(st)
    ELSE IF MatchAfterSpace(line, BLOCK_OPEN) THEN
        IF MatchBlockOnOneLine(line) THEN Drop(st)
        ELSE Drop([st EXCEPT !.in_block = TRUE])
    ELSE Keep(st, line)

\* the XML-like loop body with the closer of an open block looked for at the
\* end of the line only
XmlLine_closerAtEnd(line, st) ==
    LET stripped == strip(line) IN
    IF st.in_block THEN
        Drop([st EXCEPT !.in_block = IF endswith(stripped, XML_CLOSE) THEN FALSE ELSE @])
    ELSE IF startswith(stripped, XML_OPEN) THEN
        IF endswith(stripped, XML_CLOSE) THEN Drop(st)
        ELSE Drop([st EXCEPT !.in_block = TRUE])
    ELSE Keep(st, line)

\* XML-like: one iteration of the for loop
XmlLine(line, st) ==
    LET stripped == strip(line) IN
    IF st.in_block THEN
        Drop([st EXCEPT !.in_block = IF Contains(stripped, XML_CLOSE) THEN FALSE ELSE @])
    ELSE IF startswith(stripped, XML_OPEN) THEN
        IF endswith(stripped, XML_CLOSE) THEN Drop(st)
        ELSE Drop([st EXCEPT !.in_block = TRUE])
    ELSE Keep(st, line)

\* hash-style without the shebang test
HashLine_noShebang(line, st) ==
    IF MatchAfterSpace(line, HASH) THEN Drop(st) ELSE Keep(st, line)

\* hash-style: one iteration of the for loop
HashLine(line, st) ==
    LET stripped == lstrip(line) IN
    IF startswith(stripped, SHEBANG) THEN Keep(st, line)
    ELSE IF MatchAfterSpace(line, HASH) THEN Drop(st)
    ELSE Keep(st, line)

\* the loop body selected by the extension
LineStep(e, line, st) ==
    IF e \in CLIKE_EXTS THEN CLikeLine(line, st)
    ELSE IF e \in XML_EXTS THEN XmlLine(line, st)
    ELSE HashLine(line, st)

\* in_block keeps the value the previous call left
InitInBlock_stale(e, prev) == prev

\* `in_block = False` before the C-like and the XML-like loop; the hash-style
\* loop has no such local
InitInBlock(e, prev) == IF e \in CLIKE_EXTS \cup XML_EXTS THEN FALSE ELSE prev

-----------------------------------------------------------------------------
(* Inputs *)

\* line bodies (without terminator) of a C-like file
CLikeBodies ==
    { <<>>,                                   \* blank line
      <<"x", "/", "/", "x">>,                 \* code with a trailing // comment
      <<" ", "/", "/", "x">>,                 \* indented // comment
      <<"/", "*", "x">>,                      \* block opener, not closed
      <<" ", "/", "*", "x", "*", "/", " ">>,  \* block opened and closed
      <<"/", "*", "*", "/", "x">>,            \* closed block, then code
      <<"*", "/", "x">> }                     \* closer, then code

\* line bodies of an XML-like file
XmlBodies ==
    { <<>>,
      <<"<", "x", ">">>,                                      \* markup
      <<"<", "!", "-", "-", "x">>,                            \* opener, not closed
      <<" ", "<", "!", "-", "-", "x", "-", "-", ">">>,         \* comment on one line
      <<"<", "!", "-", "-", "-", "-", ">", "<", "x", ">">>,    \* comment, then markup
      <<"-", "-", ">", "<", "x", ">">> }                      \* closer, then markup

\* line bodies of a hash-style file
HashBodies ==
    { <<>>,
      <<"x", " ", "#", "x">>,      \* content with a trailing # comment
      <<" ", "#", "x">>,           \* indented # comment
      <<"#", "!", "x">>,           \* shebang
      <<" ", "#", "!", "x">> }     \* indented shebang

\* line bodies of a file of no dialect
OtherBodies ==
    { <<"x">>, <<"/", "/", "x">>, <<"/", "*", "x">>,
      <<"<", "!", "-", "-", "x">>, <<"#", "x">> }

Bodies(e) ==
    IF e \in CLIKE_EXTS THEN CLikeBodies
    ELSE IF e \in XML_EXTS THEN XmlBodies
    ELSE IF e \in HASH_EXTS THEN HashBodies
    ELSE OtherBodies

\* what f.readlines() returns: every line ends with the terminator, except
\* that the last line of a file may lack it (and is then not empty)
ReadLines(bodies, eol) ==
    [k \in 1..Len(bodies) |->
        IF k < Len(bodies) \/ eol THEN Append(bodies[k], "\n") ELSE bodies[k]]

SeqsUpTo(S, n) == UNION { [1..k -> S] : k \in 0..n }

FileContents(e) ==
    { ReadLines(b, TRUE) : b \in SeqsUpTo(Bodies(e), MaxLines) }
    \cup
    { ReadLines(b, FALSE) :
        b \in { c \in SeqsUpTo(Bodies(e), MaxLines) : Len(c) > 0 /\ c[Len(c)] # <<>> } }

-----------------------------------------------------------------------------
(* remove_full_line_comments as a state machine *)

NoReturn == [lines |-> <<>>, removed |-> 0]

NoPath == <<>>

\* the extensions the engine is run with: members of each table, and
\* extensions of none
EngineExts == {".dart", ".kts", ".xml", ".sh", ".yml", ".properties", ".txt"}

Init ==
    /\ ext \in EngineExts
    /\ lines \in FileContents(ext)
    /\ i = 0
    /\ in_block = FALSE
    /\ result = <<>>
    /\ removed = 0
    /\ pc = "call"
    /\ ret = NoReturn
    /\ pass = 1
    /\ first = NoReturn
    /\ fs = <<>>
    /\ stack = <<>>
    /\ names = {}
    /\ path = NoPath
    /\ files_changed = 0
    /\ lines_removed = 0
    /\ printed = <<>>
    /\ log = <<>>
    /\ runs = <<>>
    /\ changed_count = 0
    /\ file_count = 0

\* entry with an extension of one of the three tables: the locals are set
\* and the for loop starts
EnterLoop ==
    /\ pc = "call"
    /\ ext \in CLIKE_EXTS \cup XML_EXTS \cup HASH_EXTS
    /\ removed' = 0
    /\ result' = <<>>
    /\ in_block' = InitInBlock(ext, in_block)
    /\ i' = 0
    /\ pc' = "loop"
    /\ UNCHANGED <<ext, lines, ret, pass, first>>
    /\ UNCHANGED mainVars
    /\ UNCHANGED <<runs, rcVars>>

\* entry with any other extension, returning `result, removed` like the
\* three branches
Passthrough_result ==
    /\ pc = "call"
    /\ ext \notin CLIKE_EXTS \cup XML_EXTS \cup HASH_EXTS
    /\ removed' = 0
    /\ result' = <<>>
    /\ ret' = [lines |-> <<>>, removed |-> 0]
    /\ pc' = "done"
    /\ UNCHANGED <<ext, lines, i, in_block, pass, first>>
    /\ UNCHANGED mainVars
    /\ UNCHANGED <<runs, rcVars>>

\* entry with any other extension: `return lines, 0`
Passthrough ==
    /\ pc = "call"
    /\ ext \notin CLIKE_EXTS \cup XML_EXTS \cup HASH_EXTS
    /\ removed' = 0
    /\ result' = <<>>
    /\ ret' = [lines |-> lines, removed |-> 0]
    /\ pc' = "done"
    /\ UNCHANGED <<ext, lines, i, in_block, pass, first>>
    /\ UNCHANGED mainVars
    /\ UNCHANGED <<runs, rcVars>>

\* one iteration of the for loop of the extension's branch
LoopStep ==
    /\ pc = "loop"
    /\ i < Len(lines)
    /\ LET st == LineStep(ext, lines[i + 1],
                          [in_block |-> in_block, result |-> result, removed |-> removed])
       IN  /\ in_block' = st.in_block
           /\ result' = st.result
           /\ removed' = st.removed
    /\ i' = i + 1
    /\ UNCHANGED <<ext, lines, pc, ret, pass, first>>
    /\ UNCHANGED mainVars
    /\ UNCHANGED <<runs, rcVars>>

\* the loop is exhausted: `return result, removed`
LoopReturn ==
    /\ pc = "loop"
    /\ i = Len(lines)
    /\ ret' = [lines |-> result, removed |-> removed]
    /\ pc' = "done"
    /\ UNCHANGED <<ext, lines, i, in_block, result, removed, pass, first>>
    /\ UNCHANGED mainVars
    /\ UNCHANGED <<runs, rcVars>>

\* the function is applied again, to the lines it returned
SecondPass ==
    /\ pc = "done"
    /\ pass = 1
    /\ first' = ret
    /\ lines' = ret.lines
    /\ pass' = 2
    /\ pc' = "call"
    /\ UNCHANGED <<ext, i, in_block, result, removed, ret>>
    /\ UNCHANGED mainVars
    /\ UNCHANGED <<runs, rcVars>>

Next ==
    \/ EnterLoop
    \/ Passthrough
    \/ LoopStep
    \/ LoopReturn
    \/ SecondPass

Spec == Init /\ [][Next]_vars

-----------------------------------------------------------------------------
(* remove_full_line_comments as a function of (lines, ext) *)

RECURSIVE LoopFrom(_, _, _, _)
LoopFrom(e, ls, k, st) ==
    IF k > Len(ls) THEN st ELSE LoopFrom(e, ls, k + 1, LineStep(e, ls[k], st))

RemoveFullLineComments(ls, e) ==
    IF e \in CLIKE_EXTS \cup XML_EXTS \cup HASH_EXTS
    THEN LET st == LoopFrom(e, ls, 1,
                            [in_block |-> FALSE, result |-> <<>>, removed |-> 0])
         IN  [lines |-> st.result, removed |-> st.removed]
    ELSE [lines |-> ls, removed |-> 0]

-----------------------------------------------------------------------------
(* The tree, paths and the exclusion list *)

\* A path relative to PROJECT_ROOT is the sequence of its components; a
\* component is its name cut before each dot of an extension, so that
\* a.dart is <<"a", ".dart">> and the directory build is <<"build">>.

EXCLUDE_DIRS ==
    { << <<"build">> >>,
      << <<".git">> >>,
      << <<".dart_tool">> >>,
      << <<"ios">>, <<"Pods">> >>,
      << <<"macos">>, <<"Pods">> >>,
      << <<"ios">>, <<"Flutter">>, <<"ephemeral">> >>,
      << <<"macos">>, <<"Flutter">>, <<"ephemeral">> >>,
      << <<"android">>, <<".gradle">> >>,
      << <<"android">>, <<"build">> >> }

IsPrefix(a, b) == Len(a) <= Len(b) /\ SubSeq(b, 1, Len(a)) = a

\* the directory the tree is walked from, as os.path.abspath gives it
PROJECT_ROOT == << <<"repo">> >>

\* the entries matched against the absolute path
is_path_excluded_absolute(p) ==
    \E ex \in EXCLUDE_DIRS : IsPrefix(ex, PROJECT_ROOT \o p)

\* rel_n == ex or rel_n.startswith(ex + "/"), on the components of the
\* path relative to PROJECT_ROOT (the paths of the tree are relative to it)
is_path_excluded(p) == \E ex \in EXCLUDE_DIRS : IsPrefix(ex, p)

\* str.lower() on the extensions of the tree
lower(x) ==
    IF x = ".XML" THEN ".xml"
    ELSE IF x = ".DART" THEN ".dart"
    ELSE x

\* os.path.splitext(name)[1].lower()
ExtOf(p) ==
    LET name == p[Len(p)] IN
    IF Len(name) >= 2 THEN lower(name[Len(name)]) ELSE ""

\* the files a tree may hold
TreePaths ==
    { << <<"a", ".dart">> >>,
      << <<"B", ".XML">> >>,
      << <<"lib">>, <<"c", ".sh">> >>,
      << <<"notes", ".txt">> >>,
      << <<"build">>, <<"g", ".java">> >>,
      << <<"ios">>, <<"Pods">>, <<"p", ".m">> >> }

\* a NUL character, and a byte sequence that is not UTF-8
NUL == "NUL"

BAD == "BAD"

\* the contents a file of the tree may have
TreeContents(p) ==
    LET e == ExtOf(p)
        code == <<"x", "/", "/", "x">>
    IN
    IF e = ".dart" THEN
        { ReadLines(<<code>>, TRUE),
          ReadLines(<< <<" ", "/", "/", "x">>, code >>, TRUE),
          ReadLines(<< code, <<"/", "*", "x">>, <<>> >>, TRUE),
          ReadLines(<< <<"/", "/", "x">>, <<NUL, "x">> >>, TRUE),
          ReadLines(<< <<"/", "/", "x">>, <<BAD, "x">> >>, TRUE) }
    ELSE IF e = ".xml" THEN
        { ReadLines(<< <<"<", "x", ">">> >>, TRUE),
          ReadLines(<< <<"<", "x", ">">>, <<"<", "!", "-", "-", "x">> >>, FALSE) }
    ELSE IF e = ".sh" THEN
        { ReadLines(<< <<"x", " ", "#", "x">> >>, TRUE),
          ReadLines(<< <<"#", "!", "x">>, <<" ", "#", "x">> >>, TRUE) }
    ELSE IF e \in {".java", ".m"} THEN
        { ReadLines(<< <<"/", "/", "x">> >>, TRUE) }
    ELSE
        { ReadLines(<< <<"#", "x">> >>, TRUE) }

Trees ==
    UNION { { f \in [T -> UNION { TreeContents(p) : p \in T }] :
                \A p \in T : f[p] \in TreeContents(p) } :
            T \in { U \in SUBSET TreePaths : Cardinality(U) <= MaxFiles } }

\* os.walk: the sub-directories and the files of directory d
SubDirs(d) ==
    { SubSeq(p, 1, Len(d) + 1) :
        p \in { q \in DOMAIN fs : Len(q) > Len(d) + 1 /\ IsPrefix(d, q) } }

FilesIn(d) == { p \in DOMAIN fs : Len(p) = Len(d) + 1 /\ IsPrefix(d, p) }

\* the orders in which os.listdir may give the members of S
Orders(S) ==
    { f \in [1..Cardinality(S) -> S] :
        \A a, b \in 1..Cardinality(S) : a # b => f[a] # f[b] }

-----------------------------------------------------------------------------
(* process_file and main *)

\* whether open(path, "r", encoding="utf-8") can decode the content
Decodable(ls) == \A k \in 1..Len(ls) : \A j \in 1..Len(ls[k]) : ls[k][j] # BAD

\* f.writelines(new_lines): the characters of the lines, one after the other
RECURSIVE writelines(_)
writelines(ls) == IF ls = <<>> THEN <<>> ELSE Head(ls) \o writelines(Tail(ls))

\* f.readlines(): the text cut after every "\n"
RECURSIVE SplitLines(_, _)
SplitLines(text, cur) ==
    IF text = <<>> THEN (IF cur = <<>> THEN <<>> ELSE <<cur>>)
    ELSE IF Head(text) = "\n"
        THEN <<Append(cur, "\n")>> \o SplitLines(Tail(text), <<>>)
    ELSE SplitLines(Tail(text), Append(cur, Head(text)))

readlines(text) == SplitLines(text, <<>>)

\* the number of bytes is_text_file reads from the head of a file
CHUNK == 4096

\* remove_comments.is_text_file, the file being readable: no NUL among
\* the first CHUNK bytes
is_text_file(ls) ==
    LET text == writelines(ls)
        n == IF Len(text) < CHUNK THEN Len(text) ELSE CHUNK
    IN  \A j \in 1..n : text[j] # NUL

\* the write-back is made whatever the removed count
ShouldWrite_always(n) == TRUE

\* `if removed > 0`
ShouldWrite(n) == n > 0

\* the failed write reported like a successful one
ProcessFileReturn_failCounts(n, wrote) == <<IF n > 0 THEN 1 ELSE 0, n>>

\* what process_file returns: (0, 0) from the except branch of the write,
\* and otherwise (1 if removed > 0 else 0, removed); wrote is "no", "ok"
\* or "fail"
ProcessFileReturn(n, wrote) ==
    IF wrote = "fail" THEN <<0, 0>> ELSE <<IF n > 0 THEN 1 ELSE 0, n>>

InitMain ==
    /\ fs \in Trees
    /\ stack = << <<>> >>
    /\ names = {}
    /\ path = NoPath
    /\ files_changed = 0
    /\ lines_removed = 0
    /\ printed = <<>>
    /\ log = <<>>
    /\ runs = <<>>
    /\ changed_count = 0
    /\ file_count = 0
    /\ ext = ""
    /\ lines = <<>>
    /\ i = 0
    /\ in_block = FALSE
    /\ result = <<>>
    /\ removed = 0
    /\ pc = "walk"
    /\ ret = NoReturn
    /\ pass = 1
    /\ first = NoReturn

\* os.walk yields the next directory: its excluded sub-directories are
\* pruned, the others will be walked next (depth first), and its files
\* are to be looked at
WalkDir ==
    /\ pc = "walk"
    /\ names = {}
    /\ stack # <<>>
    /\ LET d == Head(stack)
           dirs == { sub \in SubDirs(d) : ~is_path_excluded(sub) }
       IN  /\ \E order \in Orders(dirs) : stack' = order \o Tail(stack)
           /\ names' = FilesIn(d)
    /\ UNCHANGED <<fs, path, files_changed, lines_removed, printed, log>>
    /\ UNCHANGED engineVars
    /\ UNCHANGED <<runs, rcVars>>

\* main: a file whose extension is not included, or whose path is
\* excluded, is passed over
SkipFile ==
    /\ pc = "walk"
    /\ \E p \in names :
          /\ ExtOf(p) \notin INCLUDED_EXTENSIONS \/ is_path_excluded(p)
          /\ names' = names \ {p}
    /\ UNCHANGED <<fs, stack, path, files_changed, lines_removed, printed, log>>
    /\ UNCHANGED engineVars
    /\ UNCHANGED <<runs, rcVars>>

\* main calls process_file, which reads the file and calls
\* remove_full_line_comments
ReadFile ==
    /\ pc = "walk"
    /\ \E p \in names :
          /\ ExtOf(p) \in INCLUDED_EXTENSIONS
          /\ ~is_path_excluded(p)
          /\ Decodable(fs[p])
          /\ names' = names \ {p}
          /\ path' = p
          /\ lines' = fs[p]
          /\ ext' = ExtOf(p)
    /\ pc' = "call"
    /\ UNCHANGED <<fs, stack, files_changed, lines_removed, printed, log>>
    /\ UNCHANGED <<i, in_block, result, removed, ret, pass, first>>
    /\ UNCHANGED <<runs, rcVars>>

\* one more record of a call of process_file
Logged(p, e, readOk, before, r, wrote, after, openEnd) ==
    Append(log, [path |-> p, ext |-> e, read_ok |-> readOk, original |-> before,
                 new_lines |-> r.lines, removed |-> r.removed, wrote |-> wrote,
                 after |-> after, open_end |-> openEnd,
                 returned |-> ProcessFileReturn(r.removed, wrote)])

\* the read of file p raises: process_file returns (0, 0) from its except
\* branch and main adds it to its counters
ReadRaises(p) ==
    /\ names' = names \ {p}
    /\ path' = p
    /\ log' = Append(log,
          [path |-> p, ext |-> ExtOf(p), read_ok |-> FALSE,
           original |-> fs[p], new_lines |-> <<>>, removed |-> 0,
           wrote |-> "no", after |-> fs[p], open_end |-> FALSE,
           returned |-> <<0, 0>>])
    /\ files_changed' = files_changed + 0
    /\ lines_removed' = lines_removed + 0
    /\ UNCHANGED <<fs, stack, printed>>
    /\ UNCHANGED engineVars
    /\ UNCHANGED <<runs, rcVars>>

\* main calls process_file, open or readlines raises OSError
ReadFails ==
    /\ pc = "walk"
    /\ \E p \in names :
          /\ ExtOf(p) \in INCLUDED_EXTENSIONS
          /\ ~is_path_excluded(p)
          /\ ReadRaises(p)

\* main calls process_file, the content is not UTF-8: readlines raises
\* UnicodeDecodeError
DecodeFails ==
    /\ pc = "walk"
    /\ \E p \in names :
          /\ ExtOf(p) \in INCLUDED_EXTENSIONS
          /\ ~is_path_excluded(p)
          /\ ~Decodable(fs[p])
          /\ ReadRaises(p)

\* process_file returns rv to main, which adds it to its counters
ReturnToMain(rv) ==
    /\ files_changed' = files_changed + rv[1]
    /\ lines_removed' = lines_removed + rv[2]
    /\ pc' = "walk"
    /\ UNCHANGED <<stack, names, path, printed>>
    /\ UNCHANGED <<ext, lines, i, in_block, result, removed, ret, pass, first>>
    /\ UNCHANGED <<runs, rcVars>>

OpenEnd == ext \in CLIKE_EXTS \cup XML_EXTS /\ in_block

\* process_file: nothing to write
NoWrite ==
    /\ pc = "done"
    /\ ~ShouldWrite(ret.removed)
    /\ log' = Logged(path, ext, TRUE, fs[path], ret, "no", fs[path], OpenEnd)
    /\ fs' = fs
    /\ ReturnToMain(ProcessFileReturn(ret.removed, "no"))

\* process_file: the file is overwritten with the retained lines
WriteBack ==
    /\ pc = "done"
    /\ ShouldWrite(ret.removed)
    /\ fs' = [fs EXCEPT ![path] = readlines(writelines(ret.lines))]
    /\ log' = Logged(path, ext, TRUE, fs[path], ret, "ok", fs'[path], OpenEnd)
    /\ ReturnToMain(ProcessFileReturn(ret.removed, "ok"))

\* process_file: the write raises OSError, either on open (the file is as
\* it was) or later (the file holds a part of the retained lines)
WriteFails ==
    /\ pc = "done"
    /\ ShouldWrite(ret.removed)
    /\ \E left \in {fs[path]} \cup
                  { SubSeq(ret.lines, 1, k) : k \in 0..(Len(ret.lines) - 1) } :
          /\ fs' = [fs EXCEPT ![path] = left]
          /\ log' = Logged(path, ext, TRUE, fs[path], ret, "fail", left, OpenEnd)
    /\ ReturnToMain(ProcessFileReturn(ret.removed, "fail"))

\* os.walk is exhausted: main prints its two counters
Report ==
    /\ pc = "walk"
    /\ names = {}
    /\ stack = <<>>
    /\ printed' = <<files_changed, lines_removed>>
    /\ pc' = "reported"
    /\ UNCHANGED <<fs, stack, names, path, files_changed, lines_removed, log>>
    /\ UNCHANGED <<ext, lines, i, in_block, result, removed, ret, pass, first>>
    /\ UNCHANGED <<runs, rcVars>>

\* main never calls remove_full_line_comments with an extension outside
\* the three tables (INCLUDED_EXTENSIONS is their union), so Passthrough
\* is no step of main
NextMain ==
    \/ WalkDir
    \/ SkipFile
    \/ ReadFile
    \/ ReadFails
    \/ DecodeFails
    \/ EnterLoop
    \/ LoopStep
    \/ LoopReturn
    \/ NoWrite
    \/ WriteBack
    \/ WriteFails
    \/ Report

SpecMain == InitMain /\ [][NextMain]_vars

\* main is one sequential thread: a step that can be taken is taken
SpecMainFair == SpecMain /\ WF_vars(NextMain)

\* the tool is invoked again on the tree the first run left: main starts
\* with its counters at 0 and walks from PROJECT_ROOT
Rerun ==
    /\ pc = "reported"
    /\ runs = <<>>
    /\ runs' = Append(runs, [log |-> log, printed |-> printed, fs |-> fs])
    /\ files_changed' = 0
    /\ lines_removed' = 0
    /\ stack' = << <<>> >>
    /\ names' = {}
    /\ path' = NoPath
    /\ printed' = <<>>
    /\ log' = <<>>
    /\ pc' = "walk"
    /\ UNCHANGED fs
    /\ UNCHANGED <<ext, lines, i, in_block, result, removed, ret, pass, first>>
    /\ UNCHANGED rcVars

\* two runs of main in which no open, read or write raises OSError
NextTwice ==
    \/ WalkDir
    \/ SkipFile
    \/ ReadFile
    \/ DecodeFails
    \/ EnterLoop
    \/ LoopStep
    \/ LoopReturn
    \/ NoWrite
    \/ WriteBack
    \/ Report
    \/ Rerun

SpecTwice == InitMain /\ [][NextTwice]_vars

-----------------------------------------------------------------------------
(* remove_comments.py: should_skip_dir, process_file and main *)

LINE_COMMENT_EXTS ==
    {".dart", ".kt", ".java", ".swift", ".gradle.kts", ".gradle", ".yaml",
     ".yml", ".sh", ".properties"}

XML_LIKE_EXTS == {".xml", ".plist", ".html"}

\* RE_LINE_COMMENT.match(ln): whitespace, then //, #, ! or ;
RE_LINE_COMMENT(ln) ==
    \/ MatchAfterSpace(ln, SLASHES)
    \/ MatchAfterSpace(ln, HASH)
    \/ MatchAfterSpace(ln, <<"!">>)
    \/ MatchAfterSpace(ln, <<";">>)

\* RE_XML_SINGLE_LINE_COMMENT.match(ln): whitespace, <!--, any characters,
\* -->, whitespace up to the end of the line
RE_XML_SINGLE_LINE_COMMENT(ln) ==
    \E k \in 1..(Len(ln) + 1) :
        /\ AllSpace(ln, 1, k - 1)
        /\ OccursAt(ln, XML_OPEN, k)
        /\ \E c \in (k + Len(XML_OPEN))..Len(ln) :
              /\ OccursAt(ln, XML_CLOSE, c)
              /\ AllSpace(ln, c + Len(XML_CLOSE), Len(ln))

\* the components of ROOT, the resolved directory main walks from
ROOT == { <<"/">>, <<"repo">> }

\* should_skip_dir(current_dir / d), d being the relative path of the
\* directory: parts is the set of the components of the absolute path
should_skip_dir(d) ==
    LET parts == ROOT \cup { d[k] : k \in 1..Len(d) }
        skip_names == { <<"build">>, <<".dart_tool">>, <<"Pods">>,
                        <<"ephemeral">>, <<"ios">>, <<"macos">>, <<".git">>,
                        <<"node_modules">> }
    IN
    IF parts \cap skip_names # {} THEN
        IF <<"Flutter">> \in parts /\ <<"ephemeral">> \in parts THEN TRUE
        ELSE IF \/ <<"build">> \in parts
                \/ <<".dart_tool">> \in parts
                \/ <<"Pods">> \in parts
                \/ <<"node_modules">> \in parts THEN TRUE
        ELSE FALSE
    ELSE FALSE

\* path.suffix.lower(): the last dotted segment of the name
suffix(p) == ExtOf(p)

\* name.endswith(".gradle.kts")
EndsWithGradleKts(p) ==
    LET name == p[Len(p)] IN
    /\ Len(name) >= 2
    /\ name[Len(name) - 1] = ".gradle"
    /\ name[Len(name)] = ".kts"

\* the extension process_file works with: the suffix, and ".gradle.kts"
\* when there is no suffix and the name ends with it
RcExt(p) ==
    IF suffix(p) = "" /\ EndsWithGradleKts(p) THEN ".gradle.kts" ELSE suffix(p)

\* main: the files handed to process_file
RcInScope(p) ==
    \/ suffix(p) \in LINE_COMMENT_EXTS
    \/ suffix(p) \in XML_LIKE_EXTS
    \/ EndsWithGradleKts(p)

\* process_file after the read: the lines it leaves and whether it writes
RcProcess(ls, e) ==
    LET KeptLine(ln) == ~RE_LINE_COMMENT(ln)
        KeptXml(ln) == ~RE_XML_SINGLE_LINE_COMMENT(ln)
    IN
    IF e \in LINE_COMMENT_EXTS THEN
        [lines |-> SelectSeq(ls, KeptLine), changed |-> SelectSeq(ls, KeptLine) # ls]
    ELSE IF e \in XML_LIKE_EXTS THEN
        [lines |-> SelectSeq(ls, KeptXml), changed |-> SelectSeq(ls, KeptXml) # ls]
    ELSE [lines |-> ls, changed |-> FALSE]

\* the files a tree walked by remove_comments.main may hold
RcTreePaths ==
    { << <<"app", ".gradle", ".kts">> >>,
      << <<"run", ".sh">> >>,
      << <<"a", ".dart">> >>,
      << <<"notes", ".txt">> >>,
      << <<".git">>, <<"h", ".sh">> >>,
      << <<"build">>, <<"g", ".java">> >>,
      << <<"ios">>, <<"r", ".xml">> >>,
      << <<"ios">>, <<"Flutter">>, <<"ephemeral">>, <<"e", ".sh">> >> }

\* the contents a file of such a tree may have
RcTreeContents(p) ==
    LET e == suffix(p) IN
    IF e = ".sh" /\ Len(p) = 1 THEN
        { ReadLines(<< <<"#", "!", "x">>, <<"#", "x">>, <<"x">> >>, TRUE),
          ReadLines(<< <<"x", " ", "#", "x">> >>, TRUE) }
    ELSE IF e = ".sh" THEN
        { ReadLines(<< <<"#", "x">>, <<"x">> >>, TRUE) }
    ELSE IF e = ".dart" THEN
        { ReadLines(<< <<"/", "/", "x">>, <<NUL, "x">> >>, TRUE),
          ReadLines(<< <<"/", "/", "x">>, <<BAD, "x">> >>, TRUE),
          ReadLines(<< <<" ", "/", "/", "x">>, <<"x">> >>, FALSE) }
    ELSE IF e = ".xml" THEN
        { ReadLines(<< <<"<", "!", "-", "-", "x", "-", "-", ">">>, <<"<", "x", ">">> >>, TRUE),
          ReadLines(<< <<"<", "!", "-", "-", "x">>, <<"-", "-", ">">> >>, TRUE) }
    ELSE IF e = ".txt" THEN
        { ReadLines(<< <<"#", "x">> >>, TRUE) }
    ELSE
        { ReadLines(<< <<"/", "/", "x">>, <<"x">> >>, TRUE) }

RcTrees ==
    UNION { { f \in [T -> UNION { RcTreeContents(p) : p \in T }] :
                \A p \in T : f[p] \in RcTreeContents(p) } :
            T \in { U \in SUBSET RcTreePaths : Cardinality(U) <= MaxFiles } }

InitRc ==
    /\ fs \in RcTrees
    /\ stack = << <<>> >>
    /\ names = {}
    /\ path = NoPath
    /\ files_changed = 0
    /\ lines_removed = 0
    /\ printed = <<>>
    /\ log = <<>>
    /\ runs = <<>>
    /\ changed_count = 0
    /\ file_count = 0
    /\ ext = ""
    /\ lines = <<>>
    /\ i = 0
    /\ in_block = FALSE
    /\ result = <<>>
    /\ removed = 0
    /\ pc = "walk"
    /\ ret = NoReturn
    /\ pass = 1
    /\ first = NoReturn

\* os.walk yields the next directory: the sub-directories should_skip_dir
\* accepts are removed from dirnames, the others will be walked
RcWalkDir ==
    /\ pc = "walk"
    /\ names = {}
    /\ stack # <<>>
    /\ LET d == Head(stack)
           dirnames == { sub \in SubDirs(d) : ~should_skip_dir(sub) }
       IN  /\ \E order \in Orders(dirnames) : stack' = order \o Tail(stack)
           /\ names' = FilesIn(d)
    /\ UNCHANGED <<fs, path, files_changed, lines_removed, printed, log>>
    /\ UNCHANGED engineVars
    /\ UNCHANGED <<runs, rcVars>>

\* main: a file with a NUL in its head, or outside the extension tables,
\* is passed over
RcSkipFile ==
    /\ pc = "walk"
    /\ \E p \in names :
          /\ ~is_text_file(fs[p]) \/ ~RcInScope(p)
          /\ names' = names \ {p}
    /\ UNCHANGED <<fs, stack, path, files_changed, lines_removed, printed, log>>
    /\ UNCHANGED engineVars
    /\ UNCHANGED <<runs, rcVars>>

\* is_text_file: the open or the read raises, the file counts as not text
RcUnreadable ==
    /\ pc = "walk"
    /\ \E p \in names : names' = names \ {p}
    /\ UNCHANGED <<fs, stack, path, files_changed, lines_removed, printed, log>>
    /\ UNCHANGED engineVars
    /\ UNCHANGED <<runs, rcVars>>

\* one more record of a call of remove_comments.process_file
RcLogged(p, readOk, r, wrote, after) ==
    Append(log, [path |-> p, ext |-> RcExt(p), read_ok |-> readOk,
                 original |-> fs[p], new_lines |-> r.lines,
                 changed |-> r.changed, wrote |-> wrote, after |-> after])

\* main counts the file and calls process_file, which reads it, filters
\* its lines and writes them back when a line was dropped
RcProcessFile ==
    /\ pc = "walk"
    /\ \E p \in names :
          LET r == RcProcess(fs[p], RcExt(p)) IN
          /\ is_text_file(fs[p])
          /\ RcInScope(p)
          /\ Decodable(fs[p])
          /\ names' = names \ {p}
          /\ file_count' = file_count + 1
          /\ IF r.changed
             THEN /\ fs' = [fs EXCEPT ![p] = readlines(writelines(r.lines))]
                  /\ log' = RcLogged(p, TRUE, r, "ok", fs'[p])
                  /\ changed_count' = changed_count + 1
             ELSE /\ fs' = fs
                  /\ log' = RcLogged(p, TRUE, r, "no", fs[p])
                  /\ changed_count' = changed_count
    /\ UNCHANGED <<stack, path, files_changed, lines_removed, printed, runs>>
    /\ UNCHANGED engineVars

\* main counts the file and calls process_file, whose read_text raises
\* (the content is not UTF-8, or the file cannot be read): it returns False
RcReadFails ==
    /\ pc = "walk"
    /\ \E p \in names :
          /\ is_text_file(fs[p])
          /\ RcInScope(p)
          /\ names' = names \ {p}
          /\ file_count' = file_count + 1
          /\ log' = RcLogged(p, FALSE, [lines |-> <<>>, changed |-> FALSE],
                             "no", fs[p])
    /\ UNCHANGED <<fs, stack, path, files_changed, lines_removed, printed, runs>>
    /\ UNCHANGED changed_count
    /\ UNCHANGED engineVars

\* process_file: write_text raises OSError, which nothing catches: main
\* ends with the exception, the file being as it was or holding a part of
\* the lines
RcWriteFails ==
    /\ pc = "walk"
    /\ \E p \in names :
          LET r == RcProcess(fs[p], RcExt(p)) IN
          /\ is_text_file(fs[p])
          /\ RcInScope(p)
          /\ Decodable(fs[p])
          /\ r.changed
          /\ names' = names \ {p}
          /\ file_count' = file_count + 1
          /\ \E left \in {fs[p]} \cup
                  { SubSeq(r.lines, 1, k) : k \in 0..(Len(r.lines) - 1) } :
                /\ fs' = [fs EXCEPT ![p] = left]
                /\ log' = RcLogged(p, TRUE, r, "fail", left)
    /\ pc' = "crashed"
    /\ UNCHANGED <<stack, path, files_changed, lines_removed, printed, runs>>
    /\ UNCHANGED changed_count
    /\ UNCHANGED <<ext, lines, i, in_block, result, removed, ret, pass, first>>

\* os.walk is exhausted: main prints its two counters and returns 0
RcReport ==
    /\ pc = "walk"
    /\ names = {}
    /\ stack = <<>>
    /\ printed' = <<file_count, changed_count>>
    /\ pc' = "reported"
    /\ UNCHANGED <<fs, stack, names, path, files_changed, lines_removed, log>>
    /\ UNCHANGED <<ext, lines, i, in_block, result, removed, ret, pass, first>>
    /\ UNCHANGED <<runs, rcVars>>

NextRc ==
    \/ RcWalkDir
    \/ RcSkipFile
    \/ RcUnreadable
    \/ RcProcessFile
    \/ RcReadFails
    \/ RcWriteFails
    \/ RcReport

SpecRc == InitRc /\ [][NextRc]_vars

-----------------------------------------------------------------------------
(* Properties of remove_full_line_comments (specification Spec) *)

Recognized == CLIKE_EXTS \cup XML_EXTS \cup HASH_EXTS

\* C1: retained lines plus removed count equals the number of lines: after
\* every prefix of the loop len(result) + removed is the number of lines
\* consumed, and the returned pair satisfies len(retained) + removed =
\* len(lines), for every extension.
C1_CountConserved ==
    /\ pc = "loop" => Len(result) + removed = i
    /\ pc = "done" => Len(ret.lines) + ret.removed = Len(lines)

\* C1 witness: a C-like call has returned, having removed and retained lines
C1_Witness ==
    /\ pc = "done" /\ pass = 1 /\ ext \in CLIKE_EXTS
    /\ ret.removed > 0 /\ Len(ret.lines) > 0

----
\* What a lexer of the dialect's comment syntax sees.  CodeScan reads the
\* line s from position k; inC tells whether k lies inside a block comment;
\* the answer is whether the line has a non-whitespace character outside
\* comments, and whether the line ends inside a block comment.
RECURSIVE CodeScan(_, _, _, _, _)
CodeScan(e, s, k, inC, content) ==
    LET open  == IF e \in CLIKE_EXTS THEN BLOCK_OPEN ELSE XML_OPEN
        close == IF e \in CLIKE_EXTS THEN BLOCK_CLOSE ELSE XML_CLOSE
    IN
    IF k > Len(s) THEN [inC |-> inC, content |-> content]
    ELSE IF inC THEN
        IF OccursAt(s, close, k)
        THEN CodeScan(e, s, k + Len(close), FALSE, content)
        ELSE CodeScan(e, s, k + 1, TRUE, content)
    ELSE IF e \in CLIKE_EXTS /\ OccursAt(s, SLASHES, k)
        THEN [inC |-> FALSE, content |-> content]
    ELSE IF OccursAt(s, open, k)
        THEN CodeScan(e, s, k + Len(open), TRUE, content)
    ELSE CodeScan(e, s, k + 1, FALSE, content \/ ~IsSpace(s[k]))

\* whether the text of ls[1..n] ends inside a block comment
RECURSIVE InCommentAfter(_, _, _)
InCommentAfter(e, ls, n) ==
    IF n = 0 THEN FALSE
    ELSE CodeScan(e, ls[n], 1, InCommentAfter(e, ls, n - 1), FALSE).inC

\* line n of the file ls has non-whitespace text outside a comment
HasCode(e, ls, n) ==
    IF e \in HASH_EXTS
    THEN LET t == lstrip(ls[n]) IN Len(t) > 0 /\ t[1] # "#"
    ELSE CodeScan(e, ls[n], 1, InCommentAfter(e, ls, n - 1), FALSE).content

\* C2: only lines that are entirely comments are removed: a line with
\* non-whitespace text outside a comment is appended to the retained lines
\* by the iteration that consumes it.
C2_OnlyCommentLinesRemoved ==
    [][(pc = "loop" /\ pass = 1 /\ i' = i + 1 /\ HasCode(ext, lines, i + 1))
          => result' = Append(result, lines[i + 1])]_vars

----
\* C3: the function is idempotent: applied to the lines it returned, it
\* returns them again with removed count 0.
C3_Idempotent ==
    (pc = "done" /\ pass = 2) => (ret.lines = first.lines /\ ret.removed = 0)

\* C3 witness: the second application has returned, the first one having
\* removed lines and retained lines
C3_Witness ==
    /\ pc = "done" /\ pass = 2 /\ ext \in Recognized
    /\ first.removed > 0 /\ Len(first.lines) > 0

----
\* a hash-style comment line: the first non-whitespace character is #, and
\* the line is not a shebang line
IsHashComment(line) ==
    LET t == lstrip(line) IN
    /\ Len(t) >= 1 /\ t[1] = "#"
    /\ ~(Len(t) >= 2 /\ t[2] = "!")

IsShebangLine(line) ==
    LET t == lstrip(line) IN Len(t) >= 2 /\ t[1] = "#" /\ t[2] = "!"

\* C4: in a hash-style file each line is decided on that line alone: the
\* retained lines are exactly the consumed lines that are not hash comment
\* lines, unchanged and in order (so every #! line is retained wherever it
\* occurs), and the removed count is the number of hash comment lines.
C4_HashLineByLine ==
    (ext \in HASH_EXTS /\ pc = "loop") =>
        /\ result = SelectSeq(SubSeq(lines, 1, i), LAMBDA l : ~IsHashComment(l))
        /\ removed = i - Len(result)

\* C4 witness: a hash-style file with a shebang line that is not its first
\* line and a removed comment line has been consumed
C4_Witness ==
    /\ ext \in HASH_EXTS /\ pc = "loop" /\ pass = 1 /\ i = Len(lines)
    /\ removed > 0
    /\ \E k \in 2..Len(lines) : IsShebangLine(lines[k])

----
\* the line starts, after whitespace, with a block opener that no closer
\* follows on the line
OpensBlock(line) ==
    LET t == lstrip(line) IN
    startswith(t, BLOCK_OPEN) /\ ~Contains(Slice(t, 3, Len(t)), BLOCK_CLOSE)

\* the line is `/* ... */` followed by whitespace only
BlockOnOneLine(line) ==
    LET t == rstrip(lstrip(line)) IN
    Len(t) >= 4 /\ startswith(t, BLOCK_OPEN) /\ endswith(t, BLOCK_CLOSE)

\* C5: in a C-like file, an opener line that does not close is removed and
\* sets in_block; while in_block every line is removed, whatever it starts
\* with, and in_block is cleared exactly by a line that contains a closer
\* anywhere (code after the closer is dropped with the line); a line
\* `/* ... */` followed only by whitespace is removed and leaves in_block
\* false.
C5_BlockComment ==
    [][(pc = "loop" /\ ext \in CLIKE_EXTS /\ i' = i + 1) =>
          LET line == lines[i + 1]
              dropped == result' = result /\ removed' = removed + 1
          IN  /\ (~in_block /\ OpensBlock(line)) => (dropped /\ in_block')
              /\ in_block =>
                    (dropped /\ (in_block' <=> ~Contains(line, BLOCK_CLOSE)))
              /\ (~in_block /\ BlockOnOneLine(line)) => (dropped /\ ~in_block')
      ]_vars

\* C5 witness: an opener line, then a line with a closer followed by code,
\* both removed, then a line retained with in_block false
C5_Witness ==
    /\ ext \in CLIKE_EXTS /\ pc = "loop" /\ pass = 1 /\ i = 3
    /\ OpensBlock(lines[1])
    /\ Contains(lines[2], BLOCK_CLOSE) /\ ~SearchCloserAtEnd(lines[2])
    /\ removed = 2 /\ result = <<lines[3]>> /\ ~in_block

----
\* r is a subsequence of l: the elements of r are elements of l, unaltered
\* and in the same relative order
IsSubsequence(r, l) ==
    \E f \in [1..Len(r) -> 1..Len(l)] :
        /\ \A a, b \in 1..Len(r) : a < b => f[a] < f[b]
        /\ \A a \in 1..Len(r) : r[a] = l[f[a]]

\* C6: the retained lines are a subsequence of the input: original order,
\* each retained line equal to the input line character for character.
C6_RetainedIsSubsequence ==
    /\ pc = "loop" => IsSubsequence(result, SubSeq(lines, 1, i))
    /\ pc = "done" => IsSubsequence(ret.lines, lines)

\* C6 witness: a call that removed a line has returned a line that holds a
\* trailing comment, terminator included
C6_Witness ==
    /\ pc = "done" /\ pass = 1 /\ ret.removed > 0
    /\ \E k \in 1..Len(ret.lines) :
          LET l == ret.lines[k] IN
          /\ l[Len(l)] = "\n"
          /\ (Contains(l, SLASHES) \/ Contains(l, HASH))

----
\* C7: with an extension of none of the three tables the function returns
\* its input unchanged, with removed count 0.
C7_OtherExtensionPassthrough ==
    (ext \notin Recognized /\ pc = "done") => ret = [lines |-> lines, removed |-> 0]

\* C7 witness: a call with such an extension has returned a file that holds
\* lines starting with //, with /*, with <!-- and with #
C7_Witness ==
    /\ ext \notin Recognized /\ pc = "done" /\ pass = 1
    /\ \E k \in 1..Len(lines) : startswith(lines[k], HASH)
    /\ \E k \in 1..Len(lines) : startswith(lines[k], SLASHES)
    /\ \E k \in 1..Len(lines) : startswith(lines[k], BLOCK_OPEN)

----
\* C14: in the C-like and the XML-like loop, in_block is true after a line
\* if and only if the text consumed so far ends inside an unterminated block
\* comment; it is not true after a line whose comment was closed on that line.
C14_InBlockIffCommentOpen ==
    (pc = "loop" /\ pass = 1 /\ ext \in CLIKE_EXTS \cup XML_EXTS) =>
        (in_block <=> InCommentAfter(ext, lines, i))

----
\* the state of the loop after the first n lines of ls
LoopAfter(e, ls, n) ==
    LoopFrom(e, SubSeq(ls, 1, n), 1,
             [in_block |-> FALSE, result |-> <<>>, removed |-> 0])

\* the line starts, after whitespace, with the dialect's opener, and no
\* closer follows the opener on the line
OpensUnclosed(e, line) ==
    IF e \in CLIKE_EXTS THEN OpensBlock(line)
    ELSE LET t == lstrip(line) IN
         startswith(t, XML_OPEN) /\ ~Contains(Slice(t, 5, Len(t)), XML_CLOSE)

CloserOf(e) == IF e \in CLIKE_EXTS THEN BLOCK_CLOSE ELSE XML_CLOSE

\* line k of ls opens a block, outside any block, that no later line closes
UnterminatedFrom(e, ls, k) ==
    /\ ~LoopAfter(e, ls, k - 1).in_block
    /\ OpensUnclosed(e, ls[k])
    /\ \A m \in (k + 1)..Len(ls) : ~Contains(ls[m], CloserOf(e))

\* C15: when a block opener line of a C-like or XML-like file is followed by
\* no line that contains the closer, the function still returns: it retains
\* exactly the lines retained before the opener, and its removed count
\* includes the opener and every line after it.  No call stops before it
\* has returned.
C15_UnterminatedBlock ==
    /\ pc \in {"call", "loop"} => ENABLED Next
    /\ (pc = "done" /\ pass = 1 /\ ext \in CLIKE_EXTS \cup XML_EXTS) =>
          \A k \in 1..Len(lines) :
              UnterminatedFrom(ext, lines, k) =>
                  /\ ret.lines = LoopAfter(ext, lines, k - 1).result
                  /\ ret.removed = LoopAfter(ext, lines, k - 1).removed
                                       + (Len(lines) - k + 1)

\* C15 witness: a call has returned for a file with a retained line, then an
\* opener that is never closed, then at least one more line
C15_Witness ==
    /\ pc = "done" /\ pass = 1 /\ ext \in CLIKE_EXTS \cup XML_EXTS
    /\ Len(ret.lines) > 0
    /\ \E k \in 2..(Len(lines) - 1) : UnterminatedFrom(ext, lines, k)

----
\* C16: in an XML-like file, per line and in this order: while in_block the
\* line is removed and in_block is cleared exactly when the line contains
\* the closer; otherwise a line whose trimmed text starts with the opener is
\* removed, and in_block is left false exactly when the trimmed text also
\* ends with the closer; every other line is retained unchanged.
C16_XmlRules ==
    [][(pc = "loop" /\ ext \in XML_EXTS /\ i' = i + 1) =>
          LET line == lines[i + 1]
              t == rstrip(lstrip(line))
              dropped == result' = result /\ removed' = removed + 1
          IN  /\ in_block =>
                    (dropped /\ (in_block' <=> ~Contains(line, XML_CLOSE)))
              /\ (~in_block /\ startswith(t, XML_OPEN)) =>
                    (dropped /\ (in_block' <=> ~endswith(t, XML_CLOSE)))
              /\ (~in_block /\ ~startswith(t, XML_OPEN)) =>
                    /\ result' = Append(result, line)
                    /\ removed' = removed
                    /\ ~in_block'
      ]_vars

\* C16 witness: an opener line, then a line with the closer followed by
\* markup, both removed, then a line retained with in_block false
C16_Witness ==
    /\ ext \in XML_EXTS /\ pc = "loop" /\ pass = 1 /\ i = 3
    /\ startswith(lines[1], XML_OPEN) /\ ~Contains(lines[1], XML_CLOSE)
    /\ Contains(lines[2], XML_CLOSE) /\ ~endswith(rstrip(lines[2]), XML_CLOSE)
    /\ removed = 2 /\ result = <<lines[3]>> /\ ~in_block

-----------------------------------------------------------------------------
(* Properties of process_file and main (specifications SpecMain,           *)
(* SpecMainFair)                                                            *)

\* C8: the block-comment state does not leak between files: for each file
\* main processes, the retained lines and the removed count are those of
\* remove_full_line_comments applied to that file alone, in_block starting
\* false, also after a file that ended inside an unterminated block comment.
C8_NoLeakBetweenFiles ==
    /\ \A k \in 1..Len(log) :
          log[k].read_ok =>
              [lines |-> log[k].new_lines, removed |-> log[k].removed]
                  = RemoveFullLineComments(log[k].original, log[k].ext)
    /\ pc = "done" => ret = RemoveFullLineComments(lines, ext)

\* C8 witness: a file ended with in_block true, and a C-like or XML-like
\* file holding a retained line was processed after it
C8_Witness ==
    \E j, k \in 1..Len(log) :
        /\ j < k
        /\ log[j].open_end
        /\ log[k].read_ok /\ log[k].ext \in CLIKE_EXTS \cup XML_EXTS
        /\ Len(log[k].new_lines) > 0

----
RECURSIVE SumOver(_, _, _)
\* the sum of val(log[k]) over the records k <= n of the log
SumOver(val(_), lg, n) ==
    IF n = 0 THEN 0 ELSE val(lg[n]) + SumOver(val, lg, n - 1)

WrittenOne(rec) == IF rec.wrote = "ok" THEN 1 ELSE 0

WrittenRemoved(rec) == IF rec.wrote = "ok" THEN rec.removed ELSE 0

\* C9: a file is opened for writing if and only if it was read and its
\* removed count is greater than 0; a completed write leaves exactly the
\* retained lines in the file, and a file that is not written keeps its
\* content; at the end of main files_changed is the number of files
\* successfully overwritten and lines_removed the sum of their removed counts.
C9_WriteIffRemoved ==
    /\ \A k \in 1..Len(log) :
          LET rec == log[k] IN
          /\ rec.wrote # "no" <=> (rec.read_ok /\ rec.removed > 0)
          /\ rec.wrote = "ok" =>
                rec.after = RemoveFullLineComments(rec.original, rec.ext).lines
          /\ rec.wrote = "no" => rec.after = rec.original
    /\ pc = "reported" =>
          /\ files_changed = SumOver(WrittenOne, log, Len(log))
          /\ lines_removed = SumOver(WrittenRemoved, log, Len(log))
          /\ printed = <<files_changed, lines_removed>>

\* C9 witness: main has ended having overwritten a file and having left
\* alone a file from which nothing was to be removed
C9_Witness ==
    /\ pc = "reported"
    /\ \E k \in 1..Len(log) : log[k].wrote = "ok"
    /\ \E k \in 1..Len(log) : log[k].read_ok /\ log[k].removed = 0

----
\* a file main has to hand to process_file: allow-listed and not excluded
Eligible(p) == ExtOf(p) \in INCLUDED_EXTENSIONS /\ ~is_path_excluded(p)

Failed(rec) == ~rec.read_ok \/ rec.wrote = "fail"

ChangedOf(rec) == rec.returned[1]

RemovedOf(rec) == rec.returned[2]

\* what holds when main has printed its counters
C10_AtReport ==
    /\ { log[k].path : k \in 1..Len(log) } = { p \in DOMAIN fs : Eligible(p) }
    /\ \A j, k \in 1..Len(log) : log[j].path = log[k].path => j = k
    /\ \A k \in 1..Len(log) : Failed(log[k]) => log[k].returned = <<0, 0>>
    /\ printed = << SumOver(ChangedOf, log, Len(log)),
                    SumOver(RemovedOf, log, Len(log)) >>

\* C10: no per-file failure is fatal: whichever reads and writes fail, main
\* eventually prints both counters, having handed every allow-listed file
\* outside the excluded directories to process_file once, and every failed
\* file has added 0 to files_changed and 0 to lines_removed.
C10_NoFailureIsFatal ==
    /\ [](pc = "reported" => C10_AtReport)
    /\ <>(pc = "reported")

\* C10 witness: main has printed its counters after a failed read and a
\* failed write, files having been processed after each of the failures
C10_Witness ==
    /\ pc = "reported"
    /\ \E j, k \in 1..Len(log) :
          j < k /\ ~log[j].read_ok /\ log[k].read_ok
    /\ \E j, k \in 1..Len(log) :
          j < k /\ log[j].wrote = "fail" /\ log[k].wrote = "ok"

----
\* a file below one of the directories the tool is told to leave alone
UnderExcludedDir(p) ==
    \/ /\ Len(p) >= 2
       /\ p[1] \in { <<"build">>, <<".git">>, <<".dart_tool">> }
    \/ /\ Len(p) >= 3
       /\ <<p[1], p[2]>> \in { << <<"ios">>, <<"Pods">> >>,
                               << <<"macos">>, <<"Pods">> >>,
                               << <<"android">>, <<".gradle">> >>,
                               << <<"android">>, <<"build">> >> }
    \/ /\ Len(p) >= 4
       /\ <<p[1], p[2], p[3]>> \in
              { << <<"ios">>, <<"Flutter">>, <<"ephemeral">> >>,
                << <<"macos">>, <<"Flutter">>, <<"ephemeral">> >> }

\* C11: during main a file under a directory named by EXCLUDE_DIRS (build,
\* .git, .dart_tool, ios/Pods, android/build, ...) is never listed by the
\* walk, process_file is never called for it, its content never changes,
\* and the printed counters are sums over the calls of process_file alone,
\* so that such a file adds 0 to files_changed and 0 to lines_removed.
C11_ExcludedNeverTouched ==
    /\ [](\A p \in DOMAIN fs : UnderExcludedDir(p) =>
            /\ p \notin names
            /\ pc \in {"call", "loop", "done"} => path # p
            /\ \A k \in 1..Len(log) : log[k].path # p)
    /\ [](pc = "reported" =>
            printed = << SumOver(ChangedOf, log, Len(log)),
                         SumOver(RemovedOf, log, Len(log)) >>)
    /\ [][\A p \in DOMAIN fs : UnderExcludedDir(p) => fs'[p] = fs[p]]_vars

\* C11 witness: main has printed its counters, having changed a file, over
\* a tree that holds commented files under build and under ios/Pods
C11_Witness ==
    /\ pc = "reported"
    /\ printed[1] > 0
    /\ \E p, q \in DOMAIN fs :
          /\ p[1] = <<"build">> /\ q[1] = <<"ios">>
          /\ UnderExcludedDir(p) /\ UnderExcludedDir(q)
          /\ RemoveFullLineComments(fs[p], ExtOf(p)).removed > 0
          /\ RemoveFullLineComments(fs[q], ExtOf(q)).removed > 0

----
\* C19: after a run of main in which no open, read or write raised OSError,
\* a second run over the tree the first run left calls process_file
\* without overwriting any file, leaves every file as it was, and prints
\* files_changed = 0 and lines_removed = 0.
C19_SecondRunChangesNothing ==
    Len(runs) = 1 =>
        /\ \A k \in 1..Len(log) : log[k].wrote = "no" /\ log[k].returned = <<0, 0>>
        /\ fs = runs[1].fs
        /\ pc = "reported" => printed = <<0, 0>>

\* C19 witness: the second run has printed its counters, having called
\* process_file for files the first run had overwritten
C19_Witness ==
    /\ Len(runs) = 1
    /\ pc = "reported"
    /\ runs[1].printed[1] >= 2
    /\ \E j, k \in 1..Len(log) : j # k /\ log[j].read_ok /\ log[k].read_ok

----
\* C13: a file that does not decode as UTF-8, or that holds a NUL byte
\* among its first 4096 bytes, is skipped by process_file: it is not
\* opened for writing and its content stays as it was.
C13_BinaryNeverModified ==
    \A k \in 1..Len(log) :
        (~Decodable(log[k].original) \/ ~is_text_file(log[k].original)) =>
            /\ log[k].wrote = "no"
            /\ log[k].after = log[k].original
            /\ log[k].returned = <<0, 0>>

-----------------------------------------------------------------------------
(* Properties of remove_comments.py (specification SpecRc) *)

\* C12: a file whose name ends in .gradle.kts is treated by
\* remove_comments.process_file as extension .gradle.kts, and after the
\* call the file holds none of its full-line // comments.
C12_GradleKtsStripped ==
    \A k \in 1..Len(log) :
        (EndsWithGradleKts(log[k].path) /\ log[k].read_ok /\ log[k].wrote # "fail") =>
            /\ log[k].ext = ".gradle.kts"
            /\ \A j \in 1..Len(log[k].after) :
                  ~MatchAfterSpace(log[k].after[j], SLASHES)

\* C17: a file with a hash-style extension that process_file has processed
\* still holds, verbatim, each of its lines that start with #!.
C17_ShebangSurvives ==
    \A k \in 1..Len(log) :
        (log[k].ext \in {".sh", ".yaml", ".yml"} /\ log[k].read_ok
            /\ log[k].wrote # "fail") =>
            \A j \in 1..Len(log[k].original) :
                IsShebangLine(log[k].original[j]) =>
                    \E n \in 1..Len(log[k].after) :
                        log[k].after[n] = log[k].original[j]

\* a directory component the tool is to prune
HasPrunedComponent(d) ==
    \/ \E k \in 1..Len(d) :
          d[k] \in { <<"build">>, <<".dart_tool">>, <<"Pods">>,
                     <<"node_modules">>, <<".git">> }
    \/ \E j, k \in 1..Len(d) : d[j] = <<"Flutter">> /\ d[k] = <<"ephemeral">>

\* C18: should_skip_dir is true of every directory whose path has a
\* component build, .dart_tool, Pods, node_modules or .git, or Flutter
\* and ephemeral, and false of ios and macos; main never lists nor
\* processes a file below such a directory.
C18_SkipDirPrunes ==
    /\ \A p \in DOMAIN fs :
          \A n \in 1..(Len(p) - 1) :
              HasPrunedComponent(SubSeq(p, 1, n)) => should_skip_dir(SubSeq(p, 1, n))
    /\ ~should_skip_dir(<< <<"ios">> >>) /\ ~should_skip_dir(<< <<"macos">> >>)
    /\ \A p \in DOMAIN fs :
          HasPrunedComponent(SubSeq(p, 1, Len(p) - 1)) =>
              /\ p \notin names
              /\ \A k \in 1..Len(log) : log[k].path # p

====
